---- MODULE Spec2Model ----
(***************************************************************************)
(* Hypermind peer discovery: the bootstrap coordinator                     *)
(* (src/discovery/bootstrap.js), its configuration (config/constants.js)   *)
(* and the in-memory peer directory (PeerManager).                         *)
(*                                                                         *)
(* Time is Date.now() in milliseconds.  An `await` is a program position:  *)
(* the code between two awaits runs to completion, so every action below   *)
(* is one synchronous stretch of the code.                                 *)
(***************************************************************************)
EXTENDS Integers, Sequences, FiniteSets, TLC

(***************************************************************************)
(* Bounds of the model.                                                    *)
(***************************************************************************)
\* Date.now() when the process starts (ms); large enough that a lastSeen
\* older than 24 h is still a positive timestamp.
START_TIME == 100000000
\* Granularity of the clock while a connection attempt is in flight (ms).
TICK == 250
\* Granularity of the clock while the scan loop runs (ms): the time taken by
\* the iterations and attempts that the scaling of maxAttempts leaves out.
LOOP_TICK == 5000
\* scanIPv4Space's maxAttempts (100000 in the code), scaled.
maxAttempts == 6
\* scanIPv4Space probes every SAMPLE_EVERY-th address (100 in the code), scaled.
SAMPLE_EVERY == 2
\* savePeerCache keeps the first CACHE_MAX_ENTRIES peers (100 in the code), scaled.
CACHE_MAX_ENTRIES == 2
\* MAX_PEERS of the directory (env MAX_PEERS, 10000 by default), scaled.
MAX_PEERS == 2
\* Clock of the directory: step (ms) and number of steps.
DIR_TICK == 15000
MAX_DIR_TICKS == 2
\* Largest sequence number a peer announces.
MAX_SEQ == 2
\* Time between the end of a run and the next start of the process (ms).
RESTART_DELAY == 60000

(***************************************************************************)
(* Program constants.                                                      *)
(***************************************************************************)
SCAN_PORT == 3000
DEFAULT_BOOTSTRAP_TIMEOUT == 10000
DEFAULT_PEER_CACHE_MAX_AGE == 86400
PEER_TIMEOUT == 15000
PROBE_TIMEOUT == 500
DEBUG_TIMEOUT == 2000
CACHE_VERSION == 1

(***************************************************************************)
(* JavaScript values.                                                      *)
(***************************************************************************)
\* parseInt of an unset or non-numeric environment variable.
NaN == 0 - 1
\* A null / undefined port, ip, id.
NullPort == 0 - 1
NullIp == <<>>
NullId == "null"

\* parseInt(s) of an environment string of decimal digits (<< >>: unset).
RECURSIVE ParseDigits(_, _)
ParseDigits(s, acc) ==
    IF s = <<>> THEN acc ELSE ParseDigits(Tail(s), acc * 10 + Head(s))

parseInt(s) == IF s = <<>> THEN NaN ELSE ParseDigits(s, 0)

\* v || d : NaN and 0 are falsy.
OrDefault(v, d) == IF v = NaN \/ v = 0 THEN d ELSE v

(***************************************************************************)
(* IPv4 addresses.  The enumerator yields a 32-bit value, held as its two  *)
(* 16-bit halves <<hi, lo>>; an ip string "a.b.c.d" is held as the tuple   *)
(* of its four decimal parts.                                              *)
(***************************************************************************)
Addr(a, b, c, d) == <<a * 256 + b, c * 256 + d>>

ipv4ToString(address) ==
    << address[1] \div 256, address[1] % 256,
       address[2] \div 256, address[2] % 256 >>

\* The values the enumerator is observed to yield: one or more of every
\* range the skip filter names, and the addresses next to their borders.
ScanAddrs ==
    { Addr(8, 8, 8, 8),
      Addr(10, 0, 0, 1), Addr(127, 0, 0, 1),
      Addr(172, 15, 255, 255), Addr(172, 16, 0, 0),
      Addr(172, 31, 255, 255), Addr(172, 32, 0, 0),
      Addr(192, 168, 0, 1), Addr(169, 254, 1, 1),
      Addr(223, 255, 255, 255), Addr(224, 0, 0, 1),
      Addr(239, 255, 255, 255), Addr(240, 0, 0, 0) }

\* generator.next(): the Feistel permutation covers the whole space, so
\* with the seed unknown any address may come next.
GeneratorNext == ScanAddrs

\* Mutant of shouldSkipAddress: the upper border of 172.16.0.0/12 is left out.
shouldSkipAddress_OffByOne(ip) ==
    LET parts == ip IN
    IF parts[1] = 127 THEN TRUE
    ELSE IF parts[1] = 10 THEN TRUE
    ELSE IF parts[1] = 172 /\ parts[2] >= 16 /\ parts[2] < 31 THEN TRUE
    ELSE IF parts[1] = 192 /\ parts[2] = 168 THEN TRUE
    ELSE IF parts[1] = 169 /\ parts[2] = 254 THEN TRUE
    ELSE IF parts[1] >= 224 /\ parts[1] <= 239 THEN TRUE
    ELSE IF parts[1] >= 240 THEN TRUE
    ELSE FALSE

shouldSkipAddress(ip) ==
    LET parts == ip IN
    IF parts[1] = 127 THEN TRUE
    ELSE IF parts[1] = 10 THEN TRUE
    ELSE IF parts[1] = 172 /\ parts[2] >= 16 /\ parts[2] <= 31 THEN TRUE
    ELSE IF parts[1] = 192 /\ parts[2] = 168 THEN TRUE
    ELSE IF parts[1] = 169 /\ parts[2] = 254 THEN TRUE
    ELSE IF parts[1] >= 224 /\ parts[1] <= 239 THEN TRUE
    ELSE IF parts[1] >= 240 THEN TRUE
    ELSE FALSE

(***************************************************************************)
(* State.                                                                  *)
(***************************************************************************)
VARIABLES
    env,          \* process.env: the variables the README documents
    file,         \* the file at PEER_CACHE_PATH
    now,          \* Date.now()
    pc,           \* position of bootstrapPeers
    cached,       \* retryCachedPeers: the loaded candidates
    idx,          \* retryCachedPeers: index of the candidate being tried
    startTime,    \* scanIPv4Space: startTime
    attempts,     \* scanIPv4Space: attempts
    probe,        \* the connection attempt in flight (<< >>: none)
    result,       \* what bootstrapPeers returned (<< >>: null or nothing yet)
    connected,    \* the target of the attempt that connected (<< >>: none)
    phases,       \* the phases started so far, with their outcome
    loadCalls,    \* number of loadPeerCache calls
    saveCalls,    \* the arguments of the savePeerCache calls
    scanProbes,   \* number of connection attempts made by the scan
    scanReturn,   \* how and when scanIPv4Space returned (<< >>: not yet)
    previous,     \* how the earlier runs of the process ended (<< >>: none)
    seenPeers,    \* PeerManager.seenPeers
    lastCall      \* the last PeerManager call and what it returned

bootVars == << previous, env, file, now, pc, cached, idx, startTime, attempts, probe,
               result, connected, phases, loadCalls, saveCalls, scanProbes,
               scanReturn >>
dirVars == << seenPeers, lastCall >>
vars == << bootVars, dirVars >>

(***************************************************************************)
(* Configuration (config/constants.js).                                    *)
(***************************************************************************)
BOOTSTRAP_TIMEOUT ==
    OrDefault(parseInt(env.BOOTSTRAP_TIMEOUT), DEFAULT_BOOTSTRAP_TIMEOUT)

PEER_CACHE_ENABLED == env.PEER_CACHE_ENABLED = "true"

PEER_CACHE_MAX_AGE ==
    OrDefault(parseInt(env.PEER_CACHE_MAX_AGE), DEFAULT_PEER_CACHE_MAX_AGE)

\* process.env.BOOTSTRAP_PEER_IP || null
BOOTSTRAP_PEER_IP == env.BOOTSTRAP_PEER_IP

(***************************************************************************)
(* The cache file.  A file is missing, unparseable, or holds a JSON value: *)
(* an array (the unversioned format) or an object with `version`,          *)
(* `timestamp` and `peers` (version 0: the object has no truthy version).  *)
(* A peer entry is [ip, port, id, lastSeen]; a missing or null field is    *)
(* NullIp / NullPort / NullId, a missing lastSeen is 0 (the code reads     *)
(* p.lastSeen || 0).  NullEntry is a null in the place of a peer entry.    *)
(***************************************************************************)
Entry(ip, port, id, lastSeen) ==
    [ip |-> ip, port |-> port, id |-> id, lastSeen |-> lastSeen]

NullEntry == Entry(NullIp, NullPort, "json null", 0)

JsonObject(version, timestamp, peersIsArray, peers) ==
    [rootIsArray |-> FALSE, version |-> version, timestamp |-> timestamp,
     peersIsArray |-> peersIsArray, peers |-> peers]

JsonArray(items) ==
    [rootIsArray |-> TRUE, version |-> 0, timestamp |-> 0,
     peersIsArray |-> TRUE, peers |-> items]

MissingFile == [exists |-> FALSE, parses |-> FALSE, data |-> JsonArray(<<>>)]
CorruptFile == [exists |-> TRUE, parses |-> FALSE, data |-> JsonArray(<<>>)]
JsonFile(data) == [exists |-> TRUE, parses |-> TRUE, data |-> data]

\* loadPeerCache's filter: age = (now - (p.lastSeen || 0)) / 1000 is a real
\* division, so age < PEER_CACHE_MAX_AGE iff the difference in ms is below
\* PEER_CACHE_MAX_AGE * 1000.
\* Mutant of IsFresh: an entry without lastSeen is taken as seen now.
IsFresh_UndatedIsNew(p) ==
    IF p.lastSeen = 0 THEN TRUE
    ELSE (now - p.lastSeen) < PEER_CACHE_MAX_AGE * 1000

IsFresh(p) == (now - p.lastSeen) < PEER_CACHE_MAX_AGE * 1000

\* Mutant of loadPeerCache: the two formats are taken for each other
\* (peers = data.version ? data : data.peers).
loadPeerCache_FormatsSwapped ==
    IF ~PEER_CACHE_ENABLED THEN <<>>
    ELSE IF ~file.exists THEN <<>>
    ELSE IF ~file.parses THEN <<>>
    ELSE LET data == file.data
             versioned == ~data.rootIsArray /\ data.version # 0
             peersIsArray ==
                 IF versioned THEN FALSE
                 ELSE ~data.rootIsArray /\ data.peersIsArray
         IN  IF ~peersIsArray THEN <<>>
             ELSE IF \E k \in 1..Len(data.peers) : data.peers[k] = NullEntry
                  THEN <<>>
             ELSE SelectSeq(data.peers, IsFresh)

loadPeerCache ==
    IF ~PEER_CACHE_ENABLED THEN <<>>
    ELSE IF ~file.exists THEN <<>>
    ELSE IF ~file.parses THEN <<>>
    ELSE LET data == file.data
             versioned == ~data.rootIsArray /\ data.version # 0
             peersIsArray ==
                 IF versioned THEN data.peersIsArray ELSE data.rootIsArray
         IN  IF ~peersIsArray THEN <<>>
             \* p.lastSeen of a null p throws in the filter: caught, [].
             ELSE IF \E k \in 1..Len(data.peers) : data.peers[k] = NullEntry
                  THEN <<>>
             ELSE SelectSeq(data.peers, IsFresh)

\* peers.slice(0, 100)
Slice(peers, n) ==
    SubSeq(peers, 1, IF Len(peers) < n THEN Len(peers) ELSE n)

\* Mutant of savePeerCache: the snapshot carries no version.
savePeerCache_NoVersion(peers, written) ==
    IF ~PEER_CACHE_ENABLED THEN file
    ELSE IF ~written THEN file
    ELSE JsonFile(JsonObject(0, now, TRUE, Slice(peers, CACHE_MAX_ENTRIES)))

\* Mutant of savePeerCache: PEER_CACHE_ENABLED is not tested.
savePeerCache_IgnoresFlag(peers, written) ==
    IF ~written THEN file
    ELSE JsonFile(JsonObject(CACHE_VERSION, now, TRUE,
                             Slice(peers, CACHE_MAX_ENTRIES)))

\* The file after savePeerCache(peers); `written` is FALSE when
\* fs.writeFileSync throws (the catch only logs).
savePeerCache(peers, written) ==
    IF ~PEER_CACHE_ENABLED THEN file
    ELSE IF ~written THEN file
    ELSE JsonFile(JsonObject(CACHE_VERSION, now, TRUE,
                             Slice(peers, CACHE_MAX_ENTRIES)))

(***************************************************************************)
(* tryConnectToPeer.  net.createConnection(port, ip) throws synchronously  *)
(* (inside the Promise executor, so the promise rejects) when the port is  *)
(* null, undefined or outside 0..65535; otherwise the attempt is in flight *)
(* until the connect callback, an 'error' event or the socket timeout.     *)
(***************************************************************************)
ConnectThrows(port) == port = NullPort \/ port < 0 \/ port > 65535

NewProbe(phase, ip, port, timeout) ==
    << [phase |-> phase, ip |-> ip, port |-> port,
        timeout |-> timeout, start |-> now] >>

Elapsed == now - probe[1].start

\* The connect callback or an 'error' event comes before the timeout fires.
CanSettle == probe # <<>> /\ Elapsed < probe[1].timeout
\* socket.on('timeout'): the socket has been idle for `timeout` ms.
TimedOut == probe # <<>> /\ Elapsed >= probe[1].timeout

Target(p) == [ip |-> p.ip, port |-> p.port]

(***************************************************************************)
(* Bookkeeping of the phases of bootstrapPeers.                            *)
(***************************************************************************)
StartPhase(ps, name) == Append(ps, [name |-> name, outcome |-> "running"])
EndPhase(ps, outcome) == [ps EXCEPT ![Len(ps)].outcome = outcome]

(***************************************************************************)
(* Initial state: the process has started, bootstrapPeers(seed) is about   *)
(* to run, the directory is empty.                                         *)
(***************************************************************************)
DebugPeer == <<192, 168, 1, 100>>

FreshPeer1 == Entry(<<203, 0, 113, 7>>, 3000, "p1", START_TIME - 1000)
FreshPeer2 == Entry(<<198, 51, 100, 9>>, 3001, "p2", START_TIME - 2000)
\* Exactly PEER_CACHE_MAX_AGE old when the process starts.
StalePeer ==
    Entry(<<203, 0, 113, 8>>, 3000, "old",
          START_TIME - DEFAULT_PEER_CACHE_MAX_AGE * 1000)
\* A peer known only through the DHT, as PeerManager.toJSON writes it:
\* ip: null, port: null.
DhtOnlyPeer == Entry(NullIp, NullPort, "dht", START_TIME - 1000)
\* An entry without lastSeen.
UndatedPeer == Entry(<<203, 0, 113, 9>>, 3000, "undated", 0)

CacheFiles ==
    { MissingFile,
      CorruptFile,
      JsonFile(JsonObject(1, START_TIME - 5000, TRUE, <<FreshPeer1>>)),
      JsonFile(JsonObject(1, START_TIME - 5000, TRUE,
                          <<StalePeer, FreshPeer1, FreshPeer2>>)),
      JsonFile(JsonObject(1, START_TIME - 5000, TRUE, <<DhtOnlyPeer>>)),
      JsonFile(JsonObject(1, START_TIME - 5000, FALSE, <<>>)),
      JsonFile(JsonArray(<<UndatedPeer, FreshPeer2>>)),
      JsonFile(JsonObject(1, START_TIME - 5000, TRUE,
                          <<FreshPeer1, NullEntry>>)),
      JsonFile(JsonObject(2, START_TIME - 5000, TRUE, <<FreshPeer1>>)) }

Environments ==
    [ BOOTSTRAP_PEER_IP : {NullIp, DebugPeer},
      PEER_CACHE_ENABLED : {"", "true"},
      ENABLE_IPV4_SCAN : {"", "true"},
      BOOTSTRAP_TIMEOUT : {<<>>, <<0>>, <<1, 0, 0, 0>>},
      PEER_CACHE_MAX_AGE : {<<>>} ]

BootInit ==
    /\ previous = <<>>
    /\ env \in Environments
    /\ file \in CacheFiles
    /\ now = START_TIME
    /\ pc = "start"
    /\ cached = <<>>
    /\ idx = 0
    /\ startTime = 0
    /\ attempts = 0
    /\ probe = <<>>
    /\ result = <<>>
    /\ connected = <<>>
    /\ phases = <<>>
    /\ loadCalls = 0
    /\ saveCalls = <<>>
    /\ scanProbes = 0
    /\ scanReturn = <<>>

\* new Map()
EmptyMap == [id \in {} |-> 0]

DirInit ==
    /\ seenPeers = EmptyMap
    /\ lastCall = [op |-> "none", id |-> NullId, seq |-> 0, key |-> "null",
                   maxAge |-> 0, ret |-> FALSE]

Init == BootInit /\ DirInit

(***************************************************************************)
(* bootstrapPeers: the debug phase.                                        *)
(***************************************************************************)
scanLocals == << startTime, attempts, scanProbes, scanReturn >>
cacheLocals == << cached, idx, loadCalls >>

\* BOOTSTRAP_PEER_IP is set: tryConnectToPeer(BOOTSTRAP_PEER_IP, SCAN_PORT, 2000).
DebugStart ==
    /\ pc = "start"
    /\ BOOTSTRAP_PEER_IP # NullIp
    /\ probe' = NewProbe("debug", BOOTSTRAP_PEER_IP, SCAN_PORT, DEBUG_TIMEOUT)
    /\ phases' = StartPhase(phases, "debug")
    /\ pc' = "debug_await"
    /\ UNCHANGED << dirVars, previous, env, file, now, result, connected, saveCalls,
                    cacheLocals, scanLocals >>

\* BOOTSTRAP_PEER_IP is null: on to retryCachedPeers.
DebugSkip ==
    /\ pc = "start"
    /\ BOOTSTRAP_PEER_IP = NullIp
    /\ pc' = "cache"
    /\ UNCHANGED << dirVars, previous, env, file, now, probe, result, connected, phases,
                    saveCalls, cacheLocals, scanLocals >>

\* Mutant of DebugConnected: the return is missing, the bootstrap goes on.
DebugConnected_FallsThrough ==
    /\ pc = "debug_await"
    /\ CanSettle
    /\ connected' = << Target(probe[1]) >>
    /\ phases' = EndPhase(phases, "succeeded")
    /\ probe' = <<>>
    /\ pc' = "cache"
    /\ UNCHANGED << dirVars, previous, env, file, now, result, saveCalls, cacheLocals,
                    scanLocals >>

\* The socket connected: return { ip: BOOTSTRAP_PEER_IP, port: SCAN_PORT }.
DebugConnected ==
    /\ pc = "debug_await"
    /\ CanSettle
    /\ connected' = << Target(probe[1]) >>
    /\ result' = << Entry(BOOTSTRAP_PEER_IP, SCAN_PORT, "undefined", 0) >>
    /\ phases' = EndPhase(phases, "succeeded")
    /\ probe' = <<>>
    /\ pc' = "returned"
    /\ UNCHANGED << dirVars, previous, env, file, now, saveCalls, cacheLocals, scanLocals >>

\* 'error' or 'timeout': fall back to the normal bootstrap.
DebugFailed ==
    /\ pc = "debug_await"
    /\ CanSettle \/ TimedOut
    /\ phases' = EndPhase(phases, "failed")
    /\ probe' = <<>>
    /\ pc' = "cache"
    /\ UNCHANGED << dirVars, previous, env, file, now, result, connected, saveCalls,
                    cacheLocals, scanLocals >>

(***************************************************************************)
(* scanIPv4Space is entered in the same synchronous stretch in which       *)
(* retryCachedPeers returned null: startTime = Date.now(), attempts = 0.   *)
(***************************************************************************)
EnterScan(ps) ==
    /\ phases' = StartPhase(EndPhase(ps, "failed"), "scan")
    /\ startTime' = now
    /\ attempts' = 0
    /\ pc' = "scan_loop"

(***************************************************************************)
(* retryCachedPeers.                                                       *)
(***************************************************************************)
\* Mutant of CacheEmpty: a file that does not parse is not caught.
CacheEmpty_ParseThrows ==
    /\ pc = "cache"
    /\ Len(loadPeerCache) = 0
    /\ cached' = loadPeerCache
    /\ loadCalls' = loadCalls + 1
    /\ IF PEER_CACHE_ENABLED /\ file.exists /\ ~file.parses
       THEN pc' = "rejected" /\ UNCHANGED << phases, scanLocals >>
       ELSE /\ EnterScan(StartPhase(phases, "cache"))
            /\ UNCHANGED << scanProbes, scanReturn >>
    /\ UNCHANGED << dirVars, previous, env, file, now, idx, probe, result, connected,
                    saveCalls >>

\* loadPeerCache() returned no candidate: return null, on to the scan.
CacheEmpty ==
    /\ pc = "cache"
    /\ Len(loadPeerCache) = 0
    /\ cached' = loadPeerCache
    /\ loadCalls' = loadCalls + 1
    /\ EnterScan(StartPhase(phases, "cache"))
    /\ UNCHANGED << dirVars, previous, env, file, now, idx, probe, result, connected, saveCalls,
                    scanProbes, scanReturn >>

\* loadPeerCache() returned candidates: the for loop starts.
CacheLoaded ==
    /\ pc = "cache"
    /\ Len(loadPeerCache) > 0
    /\ cached' = loadPeerCache
    /\ loadCalls' = loadCalls + 1
    /\ idx' = 1
    /\ phases' = StartPhase(phases, "cache")
    /\ pc' = "cache_try"
    /\ UNCHANGED << dirVars, previous, env, file, now, probe, result, connected, saveCalls,
                    scanLocals >>

\* tryConnectToPeer(peer.ip, peer.port, 500) for the next candidate.
CacheTry ==
    /\ pc = "cache_try"
    /\ idx <= Len(cached)
    /\ ~ConnectThrows(cached[idx].port)
    /\ probe' = NewProbe("cache", cached[idx].ip, cached[idx].port,
                         PROBE_TIMEOUT)
    /\ pc' = "cache_await"
    /\ UNCHANGED << dirVars, previous, env, file, now, result, connected, phases, saveCalls,
                    cacheLocals, scanLocals >>

\* net.createConnection throws on the candidate's port: the promise of
\* tryConnectToPeer rejects, nothing catches it, bootstrapPeers rejects.
CacheTryThrows ==
    /\ pc = "cache_try"
    /\ idx <= Len(cached)
    /\ ConnectThrows(cached[idx].port)
    /\ pc' = "rejected"
    /\ UNCHANGED << dirVars, previous, env, file, now, probe, result, connected, phases,
                    saveCalls, cacheLocals, scanLocals >>

\* The for loop is over: "All cached peers unreachable", return null.
CacheExhausted ==
    /\ pc = "cache_try"
    /\ idx > Len(cached)
    /\ EnterScan(phases)
    /\ UNCHANGED << dirVars, previous, env, file, now, probe, result, connected, saveCalls,
                    cacheLocals, scanProbes, scanReturn >>

\* Mutant of CacheConnected: the first candidate is returned, not the one
\* that connected.
CacheConnected_ReturnsFirst ==
    /\ pc = "cache_await"
    /\ CanSettle
    /\ connected' = << Target(probe[1]) >>
    /\ result' = << cached[1] >>
    /\ phases' = EndPhase(phases, "succeeded")
    /\ probe' = <<>>
    /\ pc' = "returned"
    /\ UNCHANGED << dirVars, previous, env, file, now, saveCalls, cacheLocals,
                    scanLocals >>

\* The socket connected: return peer.
CacheConnected ==
    /\ pc = "cache_await"
    /\ CanSettle
    /\ connected' = << Target(probe[1]) >>
    /\ result' = << cached[idx] >>
    /\ phases' = EndPhase(phases, "succeeded")
    /\ probe' = <<>>
    /\ pc' = "returned"
    /\ UNCHANGED << dirVars, previous, env, file, now, saveCalls, cacheLocals, scanLocals >>

\* Mutant of CacheFailed: the first failure ends the loop.
CacheFailed_GivesUp ==
    /\ pc = "cache_await"
    /\ CanSettle \/ TimedOut
    /\ idx' = Len(cached) + 1
    /\ probe' = <<>>
    /\ pc' = "cache_try"
    /\ UNCHANGED << dirVars, previous, env, file, now, result, connected,
                    phases, saveCalls, cached, loadCalls, scanLocals >>

\* 'error' or 'timeout': the next candidate.
CacheFailed ==
    /\ pc = "cache_await"
    /\ CanSettle \/ TimedOut
    /\ idx' = idx + 1
    /\ probe' = <<>>
    /\ pc' = "cache_try"
    /\ UNCHANGED << dirVars, previous, env, file, now, result, connected, phases, saveCalls,
                    cached, loadCalls, scanLocals >>

(***************************************************************************)
(* scanIPv4Space(seed, BOOTSTRAP_TIMEOUT), and the end of bootstrapPeers.  *)
(***************************************************************************)
\* scanIPv4Space returned null: bootstrapPeers returns null (DHT fallback).
ScanReturnsNull(why) ==
    /\ scanReturn' = << [why |-> why, at |-> now] >>
    /\ phases' = StartPhase(EndPhase(phases, "failed"), "fallback")
    /\ result' = <<>>
    /\ pc' = "returned"
    /\ UNCHANGED << dirVars, previous, env, file, now, probe, connected, saveCalls, cacheLocals,
                    startTime, attempts, scanProbes >>

\* Mutant of DeadlinePassed: startTime is not subtracted.
DeadlinePassed_NoStartTime == now > BOOTSTRAP_TIMEOUT

DeadlinePassed == now - startTime > BOOTSTRAP_TIMEOUT

\* while (attempts < maxAttempts) is over.
ScanMaxAttempts ==
    /\ pc = "scan_loop"
    /\ ~(attempts < maxAttempts)
    /\ ScanReturnsNull("maxAttempts")

\* Date.now() - startTime > timeout.
ScanDeadline ==
    /\ pc = "scan_loop"
    /\ attempts < maxAttempts
    /\ DeadlinePassed
    /\ ScanReturnsNull("deadline")

\* One iteration that makes no connection attempt: the address is skipped,
\* or it is not the SAMPLE_EVERY-th one.
ScanContinue ==
    /\ pc = "scan_loop"
    /\ attempts < maxAttempts
    /\ ~DeadlinePassed
    /\ \E address \in GeneratorNext :
          LET ip == ipv4ToString(address) IN
          \/ shouldSkipAddress(ip)
          \/ (attempts + 1) % SAMPLE_EVERY # 0
    /\ attempts' = attempts + 1
    /\ UNCHANGED << dirVars, previous, env, file, now, pc, probe, result, connected, phases,
                    saveCalls, cacheLocals, startTime, scanProbes,
                    scanReturn >>

\* One iteration that reaches tryConnectToPeer(ip, SCAN_PORT, 500).
ScanProbe ==
    /\ pc = "scan_loop"
    /\ attempts < maxAttempts
    /\ ~DeadlinePassed
    /\ \E address \in GeneratorNext :
          LET ip == ipv4ToString(address) IN
          /\ ~shouldSkipAddress(ip)
          /\ (attempts + 1) % SAMPLE_EVERY = 0
          /\ probe' = NewProbe("scan", ip, SCAN_PORT, PROBE_TIMEOUT)
    /\ attempts' = attempts + 1
    /\ scanProbes' = scanProbes + 1
    /\ pc' = "scan_await"
    /\ UNCHANGED << dirVars, previous, env, file, now, result, connected, phases, saveCalls,
                    cacheLocals, startTime, scanReturn >>

\* Mutant of ScanConnected: the peer is returned without savePeerCache.
ScanConnected_NoSave ==
    /\ pc = "scan_await"
    /\ CanSettle
    /\ result' = << Entry(probe[1].ip, SCAN_PORT, NullId, now) >>
    /\ connected' = << Target(probe[1]) >>
    /\ scanReturn' = << [why |-> "found", at |-> now] >>
    /\ phases' = EndPhase(phases, "succeeded")
    /\ probe' = <<>>
    /\ pc' = "returned"
    /\ UNCHANGED << dirVars, previous, env, file, now, saveCalls, cacheLocals,
                    startTime, attempts, scanProbes >>

\* The socket connected: savePeerCache([peer]), return peer.
ScanConnected ==
    /\ pc = "scan_await"
    /\ CanSettle
    /\ LET peer == Entry(probe[1].ip, SCAN_PORT, NullId, now) IN
          /\ result' = << peer >>
          /\ saveCalls' = Append(saveCalls, << peer >>)
          /\ \E written \in BOOLEAN : file' = savePeerCache(<< peer >>, written)
    /\ connected' = << Target(probe[1]) >>
    /\ scanReturn' = << [why |-> "found", at |-> now] >>
    /\ phases' = EndPhase(phases, "succeeded")
    /\ probe' = <<>>
    /\ pc' = "returned"
    /\ UNCHANGED << dirVars, previous, env, now, cacheLocals, startTime, attempts, scanProbes >>

\* 'error' or 'timeout': the loop goes on.
ScanFailed ==
    /\ pc = "scan_await"
    /\ CanSettle \/ TimedOut
    /\ probe' = <<>>
    /\ pc' = "scan_loop"
    /\ UNCHANGED << dirVars, previous, env, file, now, result, connected, phases, saveCalls,
                    cacheLocals, scanLocals >>

(***************************************************************************)
(* The clock.  Time passes while an attempt is in flight, until its socket *)
(* timeout fires, and while the scan loop runs, until its deadline check   *)
(* ends it.                                                                *)
(***************************************************************************)
Tick ==
    /\ probe # <<>>
    /\ ~TimedOut
    /\ now' = now + TICK
    /\ UNCHANGED << dirVars, previous, env, file, pc, probe, result, connected, phases,
                    saveCalls, cacheLocals, scanLocals >>

LoopTick ==
    /\ pc = "scan_loop"
    /\ attempts < maxAttempts
    /\ ~DeadlinePassed
    /\ now' = now + LOOP_TICK
    /\ UNCHANGED << dirVars, previous, env, file, pc, probe, result, connected, phases,
                    saveCalls, cacheLocals, scanLocals >>

Next ==
    \/ DebugStart
    \/ DebugSkip
    \/ DebugConnected
    \/ DebugFailed
    \/ CacheEmpty
    \/ CacheLoaded
    \/ CacheTry
    \/ CacheTryThrows
    \/ CacheExhausted
    \/ CacheConnected
    \/ CacheFailed
    \/ ScanMaxAttempts
    \/ ScanDeadline
    \/ ScanContinue
    \/ ScanProbe
    \/ ScanConnected
    \/ ScanFailed
    \/ Tick
    \/ LoopTick

Spec == Init /\ [][Next]_vars

(***************************************************************************)
(* The process over two starts.  The cache file and the environment        *)
(* outlive the process; everything else starts afresh.  The process may    *)
(* die while savePeerCache is in fs.writeFileSync, which opens the file    *)
(* with flag 'w' (truncating it) and then writes the text: the file is     *)
(* then as it was (the call had not opened it), cut short, or complete.    *)
(* Over two runs the clock moves in larger steps: a connection attempt     *)
(* settles at once or waits for its socket timeout.                        *)
(***************************************************************************)
\* How a run ended: the position reached, the phase that was running or
\* had succeeded, and the peer returned.
Ended(at) ==
    [at |-> at,
     via |-> IF phases = <<>> THEN "none" ELSE phases[Len(phases)].name,
     result |-> result]

\* The scan's socket connected and the process dies in savePeerCache([peer]).
CrashInSave ==
    /\ pc = "scan_await"
    /\ CanSettle
    /\ PEER_CACHE_ENABLED
    /\ LET peer == Entry(probe[1].ip, SCAN_PORT, NullId, now) IN
          /\ saveCalls' = Append(saveCalls, << peer >>)
          /\ file' \in {file, CorruptFile, savePeerCache(<< peer >>, TRUE)}
    /\ connected' = << Target(probe[1]) >>
    /\ probe' = <<>>
    /\ pc' = "crashed"
    /\ UNCHANGED << dirVars, previous, env, now, result, phases, cacheLocals,
                    scanLocals >>

\* The next start follows at once or a day later.
RestartDelays == {RESTART_DELAY, DEFAULT_PEER_CACHE_MAX_AGE * 1000}

\* The process starts again and calls bootstrapPeers(seed).
Restart ==
    /\ pc \in {"returned", "rejected", "crashed"}
    /\ previous = <<>>
    /\ previous' = << Ended(pc) >>
    /\ \E delay \in RestartDelays : now' = now + delay
    /\ pc' = "start"
    /\ cached' = <<>>
    /\ idx' = 0
    /\ startTime' = 0
    /\ attempts' = 0
    /\ probe' = <<>>
    /\ result' = <<>>
    /\ connected' = <<>>
    /\ phases' = <<>>
    /\ loadCalls' = 0
    /\ saveCalls' = <<>>
    /\ scanProbes' = 0
    /\ scanReturn' = <<>>
    /\ UNCHANGED << dirVars, env, file >>

\* The first start finds no cache file, a file cut short, one peer, or
\* one peer without an address.
RestartFiles ==
    { MissingFile,
      CorruptFile,
      JsonFile(JsonObject(1, START_TIME - 5000, TRUE, <<FreshPeer1>>)),
      JsonFile(JsonObject(1, START_TIME - 5000, TRUE, <<DhtOnlyPeer>>)) }

RestartInit ==
    /\ Init
    /\ env.PEER_CACHE_ENABLED = "true"
    /\ env.ENABLE_IPV4_SCAN = ""
    /\ env.BOOTSTRAP_TIMEOUT = <<>>
    /\ file \in RestartFiles

\* Nothing happens on the socket until its timeout fires.
WaitForTimeout ==
    /\ probe # <<>>
    /\ ~TimedOut
    /\ now' = probe[1].start + probe[1].timeout
    /\ UNCHANGED << dirVars, previous, env, file, pc, probe, result,
                    connected, phases, saveCalls, cacheLocals, scanLocals >>

RestartNext ==
    \/ DebugStart
    \/ DebugSkip
    \/ DebugConnected
    \/ DebugFailed
    \/ CacheEmpty
    \/ CacheLoaded
    \/ CacheTry
    \/ CacheTryThrows
    \/ CacheExhausted
    \/ CacheConnected
    \/ CacheFailed
    \/ ScanMaxAttempts
    \/ ScanDeadline
    \/ ScanContinue
    \/ ScanProbe
    \/ ScanConnected
    \/ ScanFailed
    \/ WaitForTimeout
    \/ LoopTick
    \/ CrashInSave
    \/ Restart

RestartSpec == RestartInit /\ [][RestartNext]_vars

(***************************************************************************)
(* Properties of bootstrapPeers.                                           *)
(***************************************************************************)
Returned == pc = "returned"
LastPhase == phases[Len(phases)]
PhaseRank(name) ==
    CASE name = "debug" -> 1
      [] name = "cache" -> 2
      [] name = "scan" -> 3
      [] name = "fallback" -> 4
Succeeded(name) ==
    \E i \in 1..Len(phases) :
        phases[i].name = name /\ phases[i].outcome = "succeeded"
Started(name) == \E i \in 1..Len(phases) : phases[i].name = name

\* C1: the phases run in the order debug, cache, scan, fallback; a phase is
\* started only once every earlier phase has failed; a connection attempt
\* in flight belongs to the phase that is running; and once the debug peer
\* has connected, loadPeerCache has not been called and the scan has made
\* no connection attempt.
C1_PhasePrecedence ==
    /\ \A i, j \in 1..Len(phases) :
          i < j => /\ PhaseRank(phases[i].name) < PhaseRank(phases[j].name)
                   /\ phases[i].outcome = "failed"
    /\ probe # <<>> =>
          /\ LastPhase.name = probe[1].phase
          /\ LastPhase.outcome = "running"
    /\ loadCalls > 0 => Started("cache")
    /\ scanProbes > 0 => Started("scan")
    /\ Succeeded("debug") =>
          /\ Returned
          /\ loadCalls = 0
          /\ scanProbes = 0
          /\ ~Started("cache") /\ ~Started("scan")

\* C1 witness: the debug peer connected although caching is enabled and the
\* cache file holds a fresh candidate.
C1_Witness ==
    /\ Returned
    /\ Succeeded("debug")
    /\ PEER_CACHE_ENABLED
    /\ Len(loadPeerCache) > 0

\* C2 (original claim): bootstrapPeers never ends in an error state: once it
\* has stopped it has returned a peer or null.
C2_NeverRejects == pc # "rejected"

\* C3: a returned peer is the target of the one attempt that connected, and
\* bootstrapPeers returns null exactly when no attempt connected; an
\* attempt that connected ends the bootstrap at once.
C3_ReturnsConnectedPeer ==
    /\ connected # <<>> => Returned /\ result # <<>>
    /\ Returned =>
          /\ result # <<>> => connected = << Target(result[1]) >>
          /\ result = <<>> <=> connected = <<>>

\* C3 witness: the second cache candidate is returned after the first one
\* failed.
C3_Witness ==
    /\ Returned
    /\ result # <<>>
    /\ Succeeded("cache")
    /\ idx = 2

\* The peer's address was handed to savePeerCache.
HandedToSave(peer) ==
    \E i \in 1..Len(saveCalls) : \E k \in 1..Len(saveCalls[i]) :
        Target(saveCalls[i][k]) = Target(peer)

\* The peer's address is in the peer list of the cache file.
InCacheFile(peer) ==
    /\ file.exists
    /\ file.parses
    /\ \E k \in 1..Len(file.data.peers) :
          Target(file.data.peers[k]) = Target(peer)

C5_ScanIsOptIn ==
    env.ENABLE_IPV4_SCAN # "true" => ~Started("scan") /\ scanProbes = 0

\* C6 (original claim): with BOOTSTRAP_TIMEOUT=0 the scan makes no connection
\* attempt.
C6_ZeroTimeoutSkipsScan ==
    env.BOOTSTRAP_TIMEOUT = <<0>> => scanProbes = 0

ScanReturnedNull == scanReturn # <<>> /\ scanReturn[1].why # "found"
ScanElapsed == scanReturn[1].at - startTime

\* C7 (original claim): when no probe succeeds, scanIPv4Space never returns
\* null while less than `timeout` ms have elapsed since it started (stated
\* for the scans that attempted every address they sampled).
C7_NullOnlyAtDeadline ==
    (ScanReturnedNull /\ scanProbes = attempts \div SAMPLE_EVERY) =>
        ScanElapsed >= BOOTSTRAP_TIMEOUT

\* C7 (amended): scanIPv4Space returns null only when `timeout` ms or more
\* have elapsed since it started, or when it has drawn maxAttempts addresses.
C7_NullAtDeadlineOrMaxAttempts ==
    ScanReturnedNull =>
        \/ ScanElapsed >= BOOTSTRAP_TIMEOUT
        \/ attempts = maxAttempts

\* C7 witness: the scan made connection attempts, none connected, and it
\* returned null at its deadline check.
C7_Witness ==
    /\ ScanReturnedNull
    /\ scanReturn[1].why = "deadline"
    /\ scanProbes > 0
    /\ attempts < maxAttempts

\* C8 (original claim): once the scan deadline has elapsed no connection
\* attempt of the scan is still in flight waiting for its own timeout: the
\* attempt was cancelled and the scan returned.
C8_DeadlineAbortsProbes ==
    ~(pc = "scan_await" /\ probe # <<>> /\ DeadlinePassed /\ ~TimedOut)

\* The ranges the scan must not touch, by first and second octet.
InExcludedRange(ip) ==
    \/ ip[1] = 127
    \/ ip[1] = 10
    \/ ip[1] = 172 /\ ip[2] \in 16..31
    \/ ip[1] = 192 /\ ip[2] = 168
    \/ ip[1] = 169 /\ ip[2] = 254
    \/ ip[1] \in 224..239
    \/ ip[1] \in 240..255

\* C9: an address the scan passes to tryConnectToPeer, and the address of a
\* peer the scan returns, is in no loopback, private, link-local, multicast
\* or reserved range.
C9_ScanSkipsExcludedRanges ==
    /\ (probe # <<>> /\ probe[1].phase = "scan") =>
          ~InExcludedRange(probe[1].ip)
    /\ (Returned /\ Succeeded("scan")) => ~InExcludedRange(result[1].ip)

\* C9 witness: the scan is connecting to the address just below 172.16/12
\* after it has drawn addresses without connecting.
C9_Witness ==
    /\ probe # <<>>
    /\ probe[1].phase = "scan"
    /\ probe[1].ip = <<172, 15, 255, 255>>
    /\ attempts > SAMPLE_EVERY

(***************************************************************************)
(* PeerManager: seenPeers is a Map from peer id to { seq, lastSeen, key }   *)
(* (and, for a record restored by fromJSON, ip and port).  lastCall holds  *)
(* the last method called, its arguments and what it returned.             *)
(***************************************************************************)
Ids == {"a", "b", "c"}
Keys == {"k1", "null"}

PeerRecord(seq, lastSeen, key, ip, port) ==
    [seq |-> seq, lastSeen |-> lastSeen, key |-> key, ip |-> ip, port |-> port]

\* Map.prototype.has / size / set / delete
MapHas(m, id) == id \in DOMAIN m
MapSize(m) == Cardinality(DOMAIN m)
MapSet(m, id, rec) ==
    [x \in DOMAIN m \cup {id} |-> IF x = id THEN rec ELSE m[x]]
MapDelete(m, ids) == [x \in DOMAIN m \ ids |-> m[x]]

\* Mutant of canAcceptPeer: the ceiling is not tested.
canAcceptPeer_NoCeiling(m, id) ==
    IF MapHas(m, id) THEN TRUE ELSE MapSize(m) >= 0

\* Mutant of canAcceptPeer: <= for <.
canAcceptPeer_OneTooMany(m, id) ==
    IF MapHas(m, id) THEN TRUE ELSE MapSize(m) <= MAX_PEERS

canAcceptPeer(m, id) ==
    IF MapHas(m, id) THEN TRUE ELSE MapSize(m) < MAX_PEERS

Call(op, id, seq, key, ret) ==
    [op |-> op, id |-> id, seq |-> seq, key |-> key, maxAge |-> 0, ret |-> ret]

CanAcceptPeer(id) ==
    /\ lastCall' = Call("canAcceptPeer", id, 0, "null",
                         canAcceptPeer(seenPeers, id))
    /\ UNCHANGED << bootVars, seenPeers >>

\* Mutant of AddOrUpdatePeer: a tracked id keeps the lastSeen it had.
AddOrUpdatePeer_KeepsLastSeen(id, seq, key) ==
    LET at == IF MapHas(seenPeers, id) THEN seenPeers[id].lastSeen ELSE now IN
    /\ seenPeers' =
          MapSet(seenPeers, id, PeerRecord(seq, at, key, NullIp, NullPort))
    /\ lastCall' = Call("addOrUpdatePeer", id, seq, key,
                         ~MapHas(seenPeers, id))
    /\ UNCHANGED bootVars

\* Mutant of AddOrUpdatePeer: a new id at capacity pushes another id out.
AddOrUpdatePeer_MakesRoom(id, seq, key) ==
    LET full == ~MapHas(seenPeers, id) /\ MapSize(seenPeers) >= MAX_PEERS
        room == IF full
                THEN MapDelete(seenPeers,
                               {CHOOSE x \in DOMAIN seenPeers : TRUE})
                ELSE seenPeers
    IN
    /\ seenPeers' = MapSet(room, id, PeerRecord(seq, now, key, NullIp, NullPort))
    /\ lastCall' = Call("addOrUpdatePeer", id, seq, key,
                         ~MapHas(seenPeers, id))
    /\ UNCHANGED bootVars

\* Mutant of AddOrUpdatePeer: a lower seq does not replace a higher one.
AddOrUpdatePeer_KeepsHigherSeq(id, seq, key) ==
    LET top == IF MapHas(seenPeers, id) /\ seenPeers[id].seq > seq
               THEN seenPeers[id].seq ELSE seq
    IN
    /\ seenPeers' =
          MapSet(seenPeers, id, PeerRecord(top, now, key, NullIp, NullPort))
    /\ lastCall' = Call("addOrUpdatePeer", id, seq, key,
                         ~MapHas(seenPeers, id))
    /\ UNCHANGED bootVars

\* The record is replaced by { seq, lastSeen: Date.now(), key }.
AddOrUpdatePeer(id, seq, key) ==
    /\ seenPeers' =
          MapSet(seenPeers, id, PeerRecord(seq, now, key, NullIp, NullPort))
    /\ lastCall' = Call("addOrUpdatePeer", id, seq, key,
                         ~MapHas(seenPeers, id))
    /\ UNCHANGED bootVars

RemovePeer(id) ==
    /\ seenPeers' = MapDelete(seenPeers, {id})
    /\ lastCall' = Call("removePeer", id, 0, "null", MapHas(seenPeers, id))
    /\ UNCHANGED bootVars

\* Mutant of IsStale: >= for >.
IsStale_AtTimeout(rec) == now - rec.lastSeen >= PEER_TIMEOUT

IsStale(rec) == now - rec.lastSeen > PEER_TIMEOUT

CleanupStalePeers ==
    LET stale == {id \in DOMAIN seenPeers : IsStale(seenPeers[id])} IN
    /\ seenPeers' = MapDelete(seenPeers, stale)
    /\ lastCall' = Call("cleanupStalePeers", NullId, 0, "null",
                         Cardinality(stale))
    /\ UNCHANGED bootVars

\* get size
Size ==
    /\ lastCall' = Call("size", NullId, 0, "null", MapSize(seenPeers))
    /\ UNCHANGED << bootVars, seenPeers >>

\* prune(maxAge): age = (now - lastSeen) / 1000 is compared with maxAge
\* seconds; as integers, age > maxAge is now - lastSeen > maxAge * 1000.
IsOlderThan(rec, maxAge) == now - rec.lastSeen > maxAge * 1000

MaxAges == {PEER_TIMEOUT \div 1000, DEFAULT_PEER_CACHE_MAX_AGE}

Prune(maxAge) ==
    LET old == {id \in DOMAIN seenPeers : IsOlderThan(seenPeers[id], maxAge)} IN
    /\ seenPeers' = MapDelete(seenPeers, old)
    /\ lastCall' = [Call("prune", NullId, 0, "null", Cardinality(old))
                       EXCEPT !.maxAge = maxAge]
    /\ UNCHANGED bootVars

\* key.toString('hex') and Buffer.from(hex, 'hex') for the keys of Keys.
toHex(key) == IF key = "k1" THEN "6b31" ELSE key
fromHex(hex) == IF hex = "6b31" THEN "k1" ELSE hex

\* An object of the array toJSON returns and fromJSON reads; a missing seq
\* or lastSeen is 0, a missing or null ip, port or key is NullIp, NullPort
\* or "null".
JsonPeer(id, seq, lastSeen, ip, port, key) ==
    [id |-> id, seq |-> seq, lastSeen |-> lastSeen, ip |-> ip, port |-> port,
     key |-> key]

\* toJSON(): one object per entry of the Map, here indexed by id (the
\* array lists them in the Map's insertion order).  `x || null` turns an
\* undefined ip or port, and port 0, into null.
toJSON(m) ==
    [id \in DOMAIN m |->
        JsonPeer(id, m[id].seq, m[id].lastSeen, m[id].ip,
                 IF m[id].port = 0 THEN NullPort ELSE m[id].port,
                 IF m[id].key # "null" THEN toHex(m[id].key) ELSE "null")]

ToJSON ==
    /\ lastCall' = Call("toJSON", NullId, 0, "null", toJSON(seenPeers))
    /\ UNCHANGED << bootVars, seenPeers >>

\* The record fromJSON sets for one object of the array.
Restored(peer) ==
    PeerRecord(peer.seq,
               IF peer.lastSeen = 0 THEN now ELSE peer.lastSeen,
               IF peer.key # "null" THEN fromHex(peer.key) ELSE "null",
               peer.ip, peer.port)

\* for (const peer of data) this.seenPeers.set(peer.id, {...})
RECURSIVE SetAll(_, _)
SetAll(m, peers) ==
    IF peers = <<>> THEN m
    ELSE SetAll(MapSet(m, Head(peers).id, Restored(Head(peers))), Tail(peers))

\* What fromJSON is given: not an array, or the array of a directory that
\* held a peer reached by a direct connection and a peer without seq,
\* lastSeen, address and key.
NotAnArray == [isArray |-> FALSE, peers |-> <<>>]
SavedDirectory ==
    [isArray |-> TRUE,
     peers |-> << JsonPeer("a", 1, START_TIME, <<203, 0, 113, 7>>, SCAN_PORT,
                           "6b31"),
                  JsonPeer("b", 0, 0, NullIp, NullPort, "null") >>]
Snapshots == {NotAnArray, SavedDirectory}

FromJSON(data) ==
    /\ seenPeers' = IF data.isArray THEN SetAll(seenPeers, data.peers)
                    ELSE seenPeers
    /\ lastCall' = Call("fromJSON", NullId, 0, "null", data.isArray)
    /\ UNCHANGED bootVars

\* A caller that follows the documented use of canAcceptPeer: a peer's
\* announcement, or a bootstrap result, reaches addOrUpdatePeer only when
\* canAcceptPeer(id) has just returned true, with nothing in between.
GatedAnnounce(id, seq, key) ==
    /\ canAcceptPeer(seenPeers, id)
    /\ AddOrUpdatePeer(id, seq, key)

DirTick ==
    /\ now < START_TIME + MAX_DIR_TICKS * DIR_TICK
    /\ now' = now + DIR_TICK
    /\ UNCHANGED << previous, env, file, pc, probe, result, connected, phases,
                    saveCalls, cacheLocals, scanLocals, dirVars >>

\* The directory runs in a process whose bootstrap is not in progress.
BootIdle ==
    /\ BootInit
    /\ env = [ BOOTSTRAP_PEER_IP |-> NullIp, PEER_CACHE_ENABLED |-> "",
               ENABLE_IPV4_SCAN |-> "", BOOTSTRAP_TIMEOUT |-> <<>>,
               PEER_CACHE_MAX_AGE |-> <<>> ]
    /\ file = MissingFile

DirSpecInit == BootIdle /\ DirInit

DirNext ==
    \/ \E id \in Ids : CanAcceptPeer(id)
    \/ \E id \in Ids, seq \in 1..MAX_SEQ, key \in Keys :
          AddOrUpdatePeer(id, seq, key)
    \/ \E id \in Ids : RemovePeer(id)
    \/ CleanupStalePeers
    \/ \E maxAge \in MaxAges : Prune(maxAge)
    \/ Size
    \/ \E data \in Snapshots : FromJSON(data)
    \/ ToJSON
    \/ DirTick

DirSpec == DirSpecInit /\ [][DirNext]_vars

\* The directory behind the admission gate.
GatedNext ==
    \/ \E id \in Ids : CanAcceptPeer(id)
    \/ \E id \in Ids, seq \in 1..MAX_SEQ, key \in Keys :
          GatedAnnounce(id, seq, key)
    \/ \E id \in Ids : RemovePeer(id)
    \/ CleanupStalePeers
    \/ \E maxAge \in MaxAges : Prune(maxAge)
    \/ Size
    \/ DirTick

GatedSpec == DirSpecInit /\ [][GatedNext]_vars

\* A step that is a call of PeerManager method `op` (the clock stands still).
Called(op) == now' = now /\ lastCall'.op = op

\* C10: canAcceptPeer(id) returns true exactly when id is tracked or fewer
\* than MAX_PEERS ids are tracked, so it denies every new id at capacity;
\* it leaves the directory as it is; and addOrUpdatePeer for a tracked id
\* stores the update whatever the size of the directory.
C10_AdmitGate ==
    [][ LET id == lastCall'.id
            tracked == id \in DOMAIN seenPeers
            size == Cardinality(DOMAIN seenPeers)
        IN  /\ Called("canAcceptPeer") =>
                  /\ lastCall'.ret = (tracked \/ size < MAX_PEERS)
                  /\ (~tracked /\ size >= MAX_PEERS) => lastCall'.ret = FALSE
                  /\ seenPeers' = seenPeers
            /\ (Called("addOrUpdatePeer") /\ tracked) =>
                  /\ DOMAIN seenPeers' = DOMAIN seenPeers
                  /\ seenPeers'[id].seq = lastCall'.seq
                  /\ seenPeers'[id].key = lastCall'.key
                  /\ seenPeers'[id].lastSeen = now
                  /\ \A other \in DOMAIN seenPeers \ {id} :
                        seenPeers'[other] = seenPeers[other]
      ]_vars

\* C10 witness: the directory is at capacity and canAcceptPeer has just
\* denied a new id.
C10_Witness ==
    /\ Cardinality(DOMAIN seenPeers) = MAX_PEERS
    /\ lastCall.op = "canAcceptPeer"
    /\ lastCall.id \notin DOMAIN seenPeers
    /\ lastCall.ret = FALSE

(***************************************************************************)
(* The cache functions on their own: loadPeerCache and savePeerCache are   *)
(* exported and take any list of peers.  pc is the call that returned      *)
(* last ("save_failed": fs.writeFileSync threw), saveCalls holds the       *)
(* argument of the last savePeerCache call, cached what the last           *)
(* loadPeerCache call returned.                                            *)
(***************************************************************************)
\* Fresh now, PEER_CACHE_MAX_AGE old one DIR_TICK later.
AgeingPeer ==
    Entry(<<198, 51, 100, 10>>, 3000, "ageing",
          START_TIME - DEFAULT_PEER_CACHE_MAX_AGE * 1000 + DIR_TICK)

PeerPool == {FreshPeer1, FreshPeer2, AgeingPeer}

\* Lists without repetition of at most n peers of PeerPool.
RECURSIVE PeerLists(_)
PeerLists(n) ==
    IF n = 0 THEN {<<>>}
    ELSE LET shorter == PeerLists(n - 1) IN
         shorter \cup
         { Append(l, p) : l \in {x \in shorter : Len(x) = n - 1},
                          p \in PeerPool }

NoRepeat(l) == \A i, j \in 1..Len(l) : l[i] = l[j] => i = j

\* One peer more than the snapshot keeps.
SaveInputs == {l \in PeerLists(CACHE_MAX_ENTRIES + 1) : NoRepeat(l)}

SavePeerCache(peers) ==
    /\ \E written \in BOOLEAN :
          /\ file' = savePeerCache(peers, written)
          /\ pc' = IF PEER_CACHE_ENABLED /\ ~written
                   THEN "save_failed" ELSE "saved"
    /\ saveCalls' = << peers >>
    /\ UNCHANGED << dirVars, previous, env, now, probe, result, connected, phases,
                    cacheLocals, scanLocals >>

LoadPeerCache ==
    /\ cached' = loadPeerCache
    /\ pc' = "loaded"
    /\ UNCHANGED << dirVars, previous, env, file, now, idx, loadCalls, probe, result,
                    connected, phases, saveCalls, scanLocals >>

CacheSpecInit ==
    /\ BootInit
    /\ DirInit
    /\ env.BOOTSTRAP_PEER_IP = NullIp
    /\ env.ENABLE_IPV4_SCAN = ""
    /\ env.BOOTSTRAP_TIMEOUT = <<>>

CacheNext ==
    \/ \E peers \in SaveInputs : SavePeerCache(peers)
    \/ LoadPeerCache
    \/ DirTick

CacheSpec == CacheSpecInit /\ [][CacheNext]_vars

\* C11: when addOrUpdatePeer runs only behind canAcceptPeer (GatedSpec),
\* no interleaving of announcements, bootstrap results, removePeer and
\* sweeps makes the directory hold more than MAX_PEERS ids.
C11_GatedSizeWithinCeiling == Cardinality(DOMAIN seenPeers) <= MAX_PEERS

\* C11 witness: a new id has just been admitted and filled the directory.
C11_Witness ==
    /\ Cardinality(DOMAIN seenPeers) = MAX_PEERS
    /\ lastCall.op = "addOrUpdatePeer"
    /\ lastCall.ret = TRUE

Age(rec) == now - rec.lastSeen

\* C12: cleanupStalePeers removes the entries whose age is above
\* PEER_TIMEOUT and no other (an entry of age PEER_TIMEOUT or less stays),
\* leaves the entries that stay as they were, and returns the number of
\* entries it removed.
C12_CleanupRemovesExactlyStale ==
    [][ Called("cleanupStalePeers") =>
          /\ \A id \in DOMAIN seenPeers :
                /\ Age(seenPeers[id]) > PEER_TIMEOUT =>
                      id \notin DOMAIN seenPeers'
                /\ Age(seenPeers[id]) <= PEER_TIMEOUT =>
                      /\ id \in DOMAIN seenPeers'
                      /\ seenPeers'[id] = seenPeers[id]
          /\ DOMAIN seenPeers' \subseteq DOMAIN seenPeers
          /\ lastCall'.ret =
                Cardinality(DOMAIN seenPeers) - Cardinality(DOMAIN seenPeers')
      ]_vars

\* C12 witness: a sweep has removed one entry and kept an entry whose age
\* is PEER_TIMEOUT.
C12_Witness ==
    /\ lastCall.op = "cleanupStalePeers"
    /\ lastCall.ret = 1
    /\ \E id \in DOMAIN seenPeers : Age(seenPeers[id]) = PEER_TIMEOUT

\* C13: size is the number of tracked ids; addOrUpdatePeer(id, seq, key)
\* returns true exactly when id was not tracked, adds at most that one id,
\* and leaves one record for id holding seq, key and the current time.
C13_UpsertOneRecordPerId ==
    [][ LET id == lastCall'.id
            before == Cardinality(DOMAIN seenPeers)
            after == Cardinality(DOMAIN seenPeers')
        IN  /\ Called("size") => lastCall'.ret = before /\ after = before
            /\ Called("addOrUpdatePeer") =>
                  /\ lastCall'.ret = (id \notin DOMAIN seenPeers)
                  /\ DOMAIN seenPeers' = DOMAIN seenPeers \cup {id}
                  /\ after = IF lastCall'.ret THEN before + 1 ELSE before
                  /\ seenPeers'[id].seq = lastCall'.seq
                  /\ seenPeers'[id].key = lastCall'.key
                  /\ seenPeers'[id].lastSeen = now
      ]_vars

\* C13 witness: addOrUpdatePeer has updated a tracked id whose record was
\* written at an earlier time.
C13_Witness ==
    /\ lastCall.op = "addOrUpdatePeer"
    /\ lastCall.ret = FALSE
    /\ now > START_TIME
    /\ seenPeers[lastCall.id].lastSeen = now
    /\ seenPeers[lastCall.id].seq = lastCall.seq

\* C14: an id leaves the directory only in a removePeer(id) call, or in a
\* sweep that finds its age above the timeout (cleanupStalePeers: above
\* PEER_TIMEOUT; prune(maxAge): above maxAge seconds); addOrUpdatePeer
\* and canAcceptPeer remove nothing, whatever the size of the directory.
C14_LeavesOnlyBySweepOrRemove ==
    [][ \A id \in DOMAIN seenPeers \ DOMAIN seenPeers' :
          \/ Called("removePeer") /\ lastCall'.id = id
          \/ Called("cleanupStalePeers") /\ Age(seenPeers[id]) > PEER_TIMEOUT
          \/ /\ Called("prune")
             /\ Age(seenPeers[id]) > lastCall'.maxAge * 1000
      ]_vars

\* C14 witness: the directory is full and addOrUpdatePeer has just added
\* an id beyond the ceiling, every id tracked before still being there.
C14_Witness ==
    /\ lastCall.op = "addOrUpdatePeer"
    /\ lastCall.ret = TRUE
    /\ Cardinality(DOMAIN seenPeers) = MAX_PEERS + 1

\* C15: with the cache disabled, no step changes the cache file, no write
\* is attempted, and a loadPeerCache call returns the empty list, whatever
\* the file holds and whatever list savePeerCache was given.
C15_DisabledCacheDoesNoIO ==
    [][ ~PEER_CACHE_ENABLED =>
          /\ file' = file
          /\ pc' # "save_failed"
          /\ pc' = "loaded" => cached' = <<>>
      ]_vars

\* C15 witness: the cache is disabled, the file lists a fresh peer,
\* savePeerCache has been called with peers and loadPeerCache has returned.
C15_Witness ==
    /\ ~PEER_CACHE_ENABLED
    /\ file = JsonFile(JsonObject(1, START_TIME - 5000, TRUE, <<FreshPeer1>>))
    /\ saveCalls # <<>>
    /\ Len(saveCalls[1]) > 0
    /\ pc = "loaded"
    /\ cached = <<>>

\* The file is missing, does not parse, or its peer list is not an array.
Unreadable(f) ==
    \/ ~f.exists
    \/ ~f.parses
    \/ ~(IF ~f.data.rootIsArray /\ f.data.version # 0
         THEN f.data.peersIsArray ELSE f.data.rootIsArray)

\* C16: once loadPeerCache has been called on a missing or corrupt file,
\* it has returned the empty list, bootstrapPeers has not rejected, and
\* the scan, the next phase, has been started.
C16_UnreadableCacheIsEmpty ==
    (loadCalls > 0 /\ Unreadable(file)) =>
        /\ cached = <<>>
        /\ pc # "rejected"
        /\ Started("scan")

\* C16 witness: the cache is enabled, the file does not parse, and the scan
\* is connecting to an address.
C16_Witness ==
    /\ PEER_CACHE_ENABLED
    /\ file = CorruptFile
    /\ loadCalls > 0
    /\ probe # <<>>
    /\ probe[1].phase = "scan"

\* C17: loadPeerCache returns the empty list for a file whose version is
\* not the version savePeerCache writes.
C17_VersionMismatchDiscarded ==
    ( /\ loadCalls > 0
      /\ file.exists
      /\ file.parses
      /\ ~file.data.rootIsArray
      /\ file.data.version # CACHE_VERSION ) => cached = <<>>

\* C18: with the cache enabled, a loadPeerCache call that follows a
\* savePeerCache(ps) call whose write went through, ps holding at most
\* CACHE_MAX_ENTRIES peers, each younger than PEER_CACHE_MAX_AGE at the
\* time of the load, returns ps.
C18_CacheRoundTrip ==
    [][ ( /\ PEER_CACHE_ENABLED
          /\ pc = "saved"
          /\ pc' = "loaded"
          /\ Len(saveCalls[1]) <= CACHE_MAX_ENTRIES
          /\ \A k \in 1..Len(saveCalls[1]) :
                now - saveCalls[1][k].lastSeen < PEER_CACHE_MAX_AGE * 1000 )
        => cached' = saveCalls[1]
      ]_vars

\* C18 witness: a list of CACHE_MAX_ENTRIES peers has been saved and, at a
\* later time, loaded back.
C18_Witness ==
    /\ PEER_CACHE_ENABLED
    /\ pc = "loaded"
    /\ saveCalls # <<>>
    /\ Len(saveCalls[1]) = CACHE_MAX_ENTRIES
    /\ cached = saveCalls[1]
    /\ file.data.timestamp = START_TIME
    /\ now > START_TIME

\* The cache is enabled and the file holds a list of peer entries.
Readable(f) ==
    /\ PEER_CACHE_ENABLED
    /\ ~Unreadable(f)
    /\ \A k \in 1..Len(f.data.peers) : f.data.peers[k] # NullEntry

\* C19: a loadPeerCache call returns no peer whose lastSeen is
\* PEER_CACHE_MAX_AGE seconds old or older (an entry without lastSeen
\* among them), returns every peer of a readable file that is younger, in
\* the file's order, and the cache replay connects only to returned peers.
C19_LoadPrunesStale ==
    [][ /\ loadCalls' # loadCalls =>
              /\ \A i \in 1..Len(cached') :
                    /\ cached'[i].lastSeen # 0
                    /\ now - cached'[i].lastSeen < PEER_CACHE_MAX_AGE * 1000
              /\ Readable(file) =>
                    /\ \A k \in 1..Len(file.data.peers) :
                          now - file.data.peers[k].lastSeen
                              < PEER_CACHE_MAX_AGE * 1000
                          => \E i \in 1..Len(cached') :
                                 cached'[i] = file.data.peers[k]
              /\ \A i, j \in 1..Len(cached') :
                    i < j => \E k, l \in 1..Len(file.data.peers) :
                                /\ k < l
                                /\ file.data.peers[k] = cached'[i]
                                /\ file.data.peers[l] = cached'[j]
        /\ (probe' # <<>> /\ probe'[1].phase = "cache") =>
              \E i \in 1..Len(cached') :
                  Target(cached'[i]) = Target(probe'[1])
      ]_vars

\* C19 witness: the file listed a stale peer before two fresh ones, and the
\* cache replay is connecting to the second fresh one.
C19_Witness ==
    /\ file = JsonFile(JsonObject(1, START_TIME - 5000, TRUE,
                                  <<StalePeer, FreshPeer1, FreshPeer2>>))
    /\ cached = <<FreshPeer1, FreshPeer2>>
    /\ probe # <<>>
    /\ probe[1].phase = "cache"
    /\ Target(probe[1]) = Target(FreshPeer2)

\* C20: the snapshot a savePeerCache(ps) call has written holds at most
\* CACHE_MAX_ENTRIES peers, in non-increasing lastSeen order, and no peer
\* of ps left out is newer than a peer kept.
C20_SnapshotIsMostRecentFirst ==
    (PEER_CACHE_ENABLED /\ pc = "saved") =>
        LET ps == saveCalls[1]
            kept == file.data.peers
        IN  /\ Len(kept) <= CACHE_MAX_ENTRIES
            /\ \A i, j \in 1..Len(kept) :
                  i < j => kept[i].lastSeen >= kept[j].lastSeen
            /\ \A k \in 1..Len(ps) :
                  (\A i \in 1..Len(kept) : kept[i] # ps[k]) =>
                      \A i \in 1..Len(kept) :
                          kept[i].lastSeen >= ps[k].lastSeen

(***************************************************************************)
(* Properties over two starts of the process (RestartSpec).                *)
(***************************************************************************)
\* The run before this one returned a peer it found by the scan.
FoundByScan ==
    /\ previous # <<>>
    /\ previous[1].at = "returned"
    /\ previous[1].via = "scan"
    /\ previous[1].result # <<>>

\* The cache file still lists the peer of the earlier run, and the peer is
\* younger than PEER_CACHE_MAX_AGE.
SnapshotIntact ==
    /\ FoundByScan
    /\ file.exists
    /\ file.parses
    /\ \E k \in 1..Len(file.data.peers) :
          file.data.peers[k] = previous[1].result[1]
    /\ now - previous[1].result[1].lastSeen < PEER_CACHE_MAX_AGE * 1000

\* The cache replay of this run has called tryConnectToPeer for the peer's
\* ip and port.
ReplayAttempted(peer) ==
    \E i \in 1..Len(cached) :
        /\ Target(cached[i]) = Target(peer)
        /\ i < idx \/ (i = idx /\ pc # "cache_try")

\* The replay connected to the peer: it is returned and no scan was made.
ReplayReturns(peer) ==
    (Succeeded("cache") /\ connected = << Target(peer) >>) =>
        /\ result = << peer >>
        /\ scanProbes = 0
        /\ ~Started("scan")

\* C21 (original claim): after a run that found a peer by the scan, the
\* next run, started while the snapshot is intact and the peer fresh,
\* ends only after its cache replay has tried that peer's ip and port, and
\* starts no scan before; when that attempt connects, the peer is returned
\* without a scan.
C21_NextStartReplaysScannedPeer ==
    SnapshotIntact =>
        LET peer == previous[1].result[1] IN
        /\ (Returned \/ Started("scan")) => ReplayAttempted(peer)
        /\ ReplayReturns(peer)

\* C21 (amended): the same, unless BOOTSTRAP_PEER_IP is set and the debug
\* peer connects, in which case the run returns the debug peer and the
\* cache is not read.
C21_NextStartReplaysUnlessDebug ==
    SnapshotIntact =>
        LET peer == previous[1].result[1] IN
        /\ ((Returned /\ ~Succeeded("debug")) \/ Started("scan")) =>
              ReplayAttempted(peer)
        /\ Succeeded("debug") =>
              /\ loadCalls = 0
              /\ Returned
              /\ Target(result[1]) =
                    [ip |-> BOOTSTRAP_PEER_IP, port |-> SCAN_PORT]
        /\ ReplayReturns(peer)

\* C21 witness: the second run has returned, from its cache replay, the
\* peer the first run found by the scan.
C21_Witness ==
    /\ SnapshotIntact
    /\ Returned
    /\ Succeeded("cache")
    /\ result = previous[1].result
    /\ scanProbes = 0

\* C22: a run calls savePeerCache at most once, and no step, the death of
\* the process in savePeerCache included, turns a cache file that is
\* missing or parses into a file that does not parse.
C22_CacheWriteOnceAndAtomic ==
    [][ /\ Len(saveCalls') <= 1
        /\ (file.exists => file.parses) => (file'.exists => file'.parses)
      ]_vars

\* The cache replay is over and has returned null.
ReplayFailed(ps) ==
    \E i \in 1..Len(ps) : ps[i].name = "cache" /\ ps[i].outcome = "failed"

InReplay(pr) == pr # <<>> /\ pr[1].phase = "cache"

\* C23: the cache replay has one attempt in flight at a time, always to
\* the candidate at position idx of the list loadPeerCache returned, idx
\* starting at 1; an attempt that fails moves idx to the next candidate;
\* an attempt that connects ends the run with that candidate; and the
\* replay returns null only when the list is empty or idx has passed the
\* last candidate.
C23_ReplayInOrderFirstMatch ==
    [][ /\ (~InReplay(probe) /\ InReplay(probe')) =>
              /\ probe = <<>>
              /\ idx \in 1..Len(cached)
              /\ idx' = idx
              /\ Target(probe'[1]) = Target(cached[idx])
        /\ (InReplay(probe) /\ probe' # probe) =>
              /\ probe' = <<>>
              /\ \/ /\ pc' = "returned"
                    /\ result' = << cached[idx] >>
                    /\ connected' = << Target(cached[idx]) >>
                    /\ idx' = idx
                 \/ /\ pc' = "cache_try"
                    /\ result' = <<>>
                    /\ idx' = idx + 1
        /\ (idx' # idx) => idx' = idx + 1 \/ (loadCalls' # loadCalls /\ idx' = 1)
        /\ cached' # cached => loadCalls' # loadCalls
        /\ (~ReplayFailed(phases) /\ ReplayFailed(phases')) =>
              /\ probe = <<>>
              /\ Len(cached') = 0 \/ idx' > Len(cached')
              /\ result' = <<>>
      ]_vars

\* C23 witness: the first candidate failed and the second, tried next,
\* connected and was returned.
C23_Witness ==
    /\ Succeeded("cache")
    /\ Returned
    /\ Len(cached) = 2
    /\ idx = 2
    /\ result = << cached[2] >>

\* The ids tracked before and after a step.
Staying == DOMAIN seenPeers \cap DOMAIN seenPeers'

\* C24 (original claim): no addOrUpdatePeer call makes the stored seq of an
\* id that stays in the directory smaller.
C24_SeqNeverDecreases ==
    [][ Called("addOrUpdatePeer") =>
           \A id \in Staying : seenPeers'[id].seq >= seenPeers[id].seq ]_vars

\* C24 (amended): addOrUpdatePeer(id, seq, key) stores the seq it is given,
\* higher or lower than the stored one; the stored seq of an id that stays
\* becomes smaller only in an addOrUpdatePeer call for that id with a
\* smaller seq, or when fromJSON restores a snapshot.
C24_SeqIsTheLastGiven ==
    [][ /\ Called("addOrUpdatePeer") =>
              seenPeers'[lastCall'.id].seq = lastCall'.seq
        /\ \A id \in Staying :
              seenPeers'[id].seq < seenPeers[id].seq =>
                  \/ /\ Called("addOrUpdatePeer")
                     /\ lastCall'.id = id
                     /\ lastCall'.seq < seenPeers[id].seq
                  \/ Called("fromJSON")
      ]_vars

\* C24 witness: addOrUpdatePeer has updated a tracked id with the lowest
\* seq, which its record now holds, while a record holds the highest.
C24_Witness ==
    /\ lastCall.op = "addOrUpdatePeer"
    /\ lastCall.ret = FALSE
    /\ lastCall.seq = 1
    /\ seenPeers[lastCall.id].seq = 1
    /\ \E other \in DOMAIN seenPeers : seenPeers[other].seq = MAX_SEQ

\* A record that carries the address of a direct connection.
HasAddress(rec) == rec.ip # NullIp /\ rec.port # NullPort

\* C25: addOrUpdatePeer for an id whose record has an ip and a port leaves
\* the record with that ip and port, and the toJSON snapshot of the
\* directory after the call carries them for that id.
C25_UpdateKeepsAddress ==
    [][ \A id \in DOMAIN seenPeers :
           ( /\ Called("addOrUpdatePeer")
             /\ lastCall'.id = id
             /\ HasAddress(seenPeers[id]) ) =>
               /\ seenPeers'[id].ip = seenPeers[id].ip
               /\ seenPeers'[id].port = seenPeers[id].port
               /\ toJSON(seenPeers')[id].ip = seenPeers[id].ip
               /\ toJSON(seenPeers')[id].port = seenPeers[id].port
      ]_vars

====
